---- MODULE Spec2Model ----
(***************************************************************************)
(* Ingestion pipeline of chest (chest/src/bin/chest.rs): one task per      *)
(* (relay, kind) pair subscribes to a relay, classifies every inbound      *)
(* event into a folder, stores it with INSERT OR IGNORE and spawns a       *)
(* dynamic (reference-scoped) subscription task for notes and long-form    *)
(* events.                                                                 *)
(***************************************************************************)
EXTENDS Integers, Sequences, FiniteSets, TLC

VARIABLES config, env, sessions, db, last, manager

vars == <<config, env, sessions, db, last, manager>>

(***************************************************************************)
(* Bounds of the model.                                                    *)
(***************************************************************************)
\* Cap on the number of tasks (initial and dynamic) that exist at once.
MaxSessions == 5

\* Longest tag list of the events the classifier specification draws.
MaxTags == 2

\* Scaled width of the u64 / i64 fields (created_at, kind): 16 bits stand for 64.
WordBits == 16

\* Most messages a relay has sent on one connection that the task has not read yet.
MaxInFlight == 2

(***************************************************************************)
(* Values.                                                                 *)
(***************************************************************************)
\* Option<String>: None is the empty sequence, Some(x) is <<x>>.
None == <<>>

Some(x) == <<x>>

\* main: let global_event_kinds = vec![1, 30023, 30024];
global_event_kinds == <<1, 30023, 30024>>

\* The kinds the dynamic subscriptions ask for: { "kinds": [7, 9734, 9735], ... }
dynamic_kinds == <<7, 9734, 9735>>

\* struct AppConfig, as far as the ingestion reads it: relays.urls and event.kinds.
AppConfig(urls, kinds) == [relays |-> [urls |-> urls], event |-> [kinds |-> kinds]]

\* struct NostrEvent
NostrEvent(id, pubkey, created_at, kind, tags, content, sig) ==
    [id |-> id, pubkey |-> pubkey, created_at |-> created_at, kind |-> kind,
     tags |-> tags, content |-> content, sig |-> sig]

\* The fields serde needs to deserialize a NostrEvent from a JSON object.
NostrEventFields == {"id", "pubkey", "created_at", "kind", "tags", "content", "sig"}

\* serde_json::from_value::<NostrEvent>(event_obj) succeeds.
from_value_ok(obj) == NostrEventFields \subseteq DOMAIN obj

\* struct WSConnection { write, read }: write is what has been sent through the
\* sink, read is Some("stream") until a reader task takes it.
WSConnection(write, read) == [write |-> write, read |-> read]

\* HashMap::new()
HashMapNew == [k \in {} |-> WSConnection(<<>>, None)]

\* struct WebSocketManager { connections } (src/bin/chest.rs), with main's
\* position around it (pc, and i, the turn of the loop main is in) and the
\* reader tasks that listen has spawned.
WebSocketManager(pc, i, connections, readers) ==
    [pc |-> pc, i |-> i, connections |-> connections, readers |-> readers]

\* The binary of chest/src/bin/chest.rs has no connection manager.
NoManager == WebSocketManager("none", 0, HashMapNew, <<>>)

(***************************************************************************)
(* Conversions.                                                            *)
(***************************************************************************)
RECURSIVE Pow2(_)
Pow2(n) == IF n = 0 THEN 1 ELSE 2 * Pow2(n - 1)

\* `x as i64` for a u64 x: two's complement reinterpretation.
as_i64(x) == IF x >= Pow2(WordBits - 1) THEN x - Pow2(WordBits) ELSE x

RECURSIVE JoinTokens(_)
JoinTokens(seqs) ==
    IF seqs = <<>> THEN <<>>
    ELSE IF Len(seqs) = 1 THEN seqs[1]
    ELSE seqs[1] \o <<",">> \o JoinTokens(Tail(seqs))

\* serde_json::to_string(&event.tags): the JSON text, as its sequence of tokens.
tags_to_string(tags) ==
    LET one(t) == <<"[">> \o JoinTokens([i \in 1..Len(t) |-> <<t[i]>>]) \o <<"]">>
    IN  <<"[">> \o JoinTokens([i \in 1..Len(tags) |-> one(tags[i])]) \o <<"]">>

(***************************************************************************)
(* Event classifier of the initial sessions.                               *)
(***************************************************************************)
\* A variant of the search: the first "e" tag that carries a value.
find_valued_e_tag(tags) ==
    LET hits == {i \in 1..Len(tags) : Len(tags[i]) >= 2 /\ tags[i][1] = "e"}
    IN  IF hits = {} THEN <<>>
        ELSE <<tags[CHOOSE i \in hits : \A j \in hits : i <= j]>>

\* A variant of the search: the last tag whose first element is "e".
find_last_e_tag(tags) ==
    LET hits == {i \in 1..Len(tags) : Len(tags[i]) >= 1 /\ tags[i][1] = "e"}
    IN  IF hits = {} THEN <<>>
        ELSE <<tags[CHOOSE i \in hits : \A j \in hits : i >= j]>>

\* event.tags.iter().find(|t| t.get(0).map(|s| s == "e").unwrap_or(false))
\* as Option<tag>: the first tag whose first element is "e".
find_e_tag(tags) ==
    LET hits == {i \in 1..Len(tags) : Len(tags[i]) >= 1 /\ tags[i][1] = "e"}
    IN  IF hits = {} THEN None
        ELSE Some(tags[CHOOSE i \in hits : \A j \in hits : i <= j])

\* tag.get(1).cloned()
get_1(tag) == IF Len(tag) >= 2 THEN Some(tag[2]) ELSE None

Keep(folder, ref_event) == [drop |-> FALSE, folder |-> folder, ref_event |-> ref_event]

\* `continue`: the event is neither stored nor followed by a spawn.
Drop == [drop |-> TRUE, folder |-> "", ref_event |-> None]

\* 1 => { ... }: a reply when the first "e" tag carries a value, else a note.
NoteArm(tag) ==
    IF tag # None /\ get_1(tag[1]) # None
    THEN Keep("replies", get_1(tag[1]))
    ELSE Keep("notes", None)

\* 7 => { ... }: a reaction when the first "e" tag carries a value, else `continue`.
ReactionArm(tag) ==
    IF tag # None /\ get_1(tag[1]) # None
    THEN Keep("reactions", get_1(tag[1]))
    ELSE Drop

\* A variant of the zap arm that, like the reaction arm, asks for a reference.
ZapArmStrict(tag) ==
    IF tag # None /\ get_1(tag[1]) # None
    THEN Keep("zaps", get_1(tag[1]))
    ELSE Drop

\* 9734 | 9735 => { ... }: a zap, its reference .and_then(|tag| tag.get(1).cloned()).
ZapArm(tag) == Keep("zaps", IF tag = None THEN None ELSE get_1(tag[1]))

\* A variant of the last arm that files unknown kinds as notes.
OtherArmKeep == Keep("notes", None)

\* _ => continue
OtherArm == Drop

\* A variant of the match with the arms of kinds 0 and 1 merged (0 | 1 => ...).
ClassifyMerged(event) ==
    LET tag == find_e_tag(event.tags)
    IN  CASE event.kind \in {0, 1} -> NoteArm(tag)
          [] event.kind = 7 -> ReactionArm(tag)
          [] event.kind \in {9734, 9735} -> ZapArm(tag)
          [] event.kind \in {30023, 30024} -> Keep("long", None)
          [] OTHER -> OtherArm

\* listen_to_relay_for_kind: let (folder, ref_event) = match event.kind { ... }
Classify(event) ==
    LET tag == find_e_tag(event.tags)
    IN  CASE event.kind = 0 -> Keep("users", None)
          [] event.kind = 1 -> NoteArm(tag)
          [] event.kind = 7 -> ReactionArm(tag)
          [] event.kind \in {9734, 9735} -> ZapArm(tag)
          [] event.kind \in {30023, 30024} -> Keep("long", None)
          [] OTHER -> OtherArm

\* A variant of the dynamic tasks' match that files whatever arrives as a
\* reaction to the target.
DynamicClassifyAny(event, target) == Keep("reactions", Some(target))

\* dynamic_listen_to_relay_for_note / _for_long: let folder = match event.kind { ... }
\* with ref_event: Some(note_event_id.clone()).
DynamicClassify(event, target) ==
    CASE event.kind = 7 -> Keep("reactions", Some(target))
      [] event.kind \in {9734, 9735} -> Keep("zaps", Some(target))
      [] OTHER -> Drop

(***************************************************************************)
(* The events table.                                                       *)
(***************************************************************************)
\* let db_event = DbEvent { ... }
DbEvent(event, folder, ref_event) ==
    [event_id |-> event.id, pubkey |-> event.pubkey,
     created_at |-> as_i64(event.created_at), kind |-> as_i64(event.kind),
     content |-> event.content, sig |-> event.sig,
     tags |-> tags_to_string(event.tags),
     folder |-> folder, ref_event |-> ref_event]

\* A variant of the statement: INSERT OR REPLACE, where the later row wins.
InsertOrReplace(table, row) ==
    [table |-> {r \in table : r.event_id # row.event_id} \cup {row}, rows_affected |-> 1]

\* A variant of the statement without the primary key: every row is added.
InsertUnchecked(table, row) == [table |-> table \cup {row}, rows_affected |-> 1]

\* INSERT OR IGNORE INTO events (...) with event_id TEXT PRIMARY KEY:
\* the table afterwards and the number of rows the statement changed.
InsertOrIgnore(table, row) ==
    IF \E r \in table : r.event_id = row.event_id
    THEN [table |-> table, rows_affected |-> 0]
    ELSE [table |-> table \cup {row}, rows_affected |-> 1]

\* A variant in which a statement that returns Err has written its row.
execute_torn(table, row, insert_ok) ==
    [table |-> InsertOrIgnore(table, row).table,
     rows_affected |-> IF insert_ok THEN InsertOrIgnore(table, row).rows_affected ELSE 0,
     res |-> IF insert_ok THEN "ok" ELSE "err"]

\* match sqlx::query(query)...execute(&db_pool).await { Ok(_) => ..., Err(e) => ... }:
\* the statement takes effect and returns Ok, or returns Err and changes nothing.
execute(table, row, insert_ok) ==
    IF insert_ok
    THEN [table |-> InsertOrIgnore(table, row).table,
          rows_affected |-> InsertOrIgnore(table, row).rows_affected,
          res |-> "ok"]
    ELSE [table |-> table, rows_affected |-> 0, res |-> "err"]

(***************************************************************************)
(* Tasks.                                                                  *)
(***************************************************************************)
KindTask == "listen_to_relay_for_kind"

NoteTask == "dynamic_listen_to_relay_for_note"

LongTask == "dynamic_listen_to_relay_for_long"

\* A spawned task: its function and arguments, the task that spawned it (0 is
\* main), its place in the session lifecycle, the messages it has sent on the
\* write half of its connection and the messages waiting on the read half.
Task(task, relay_url, event_kind, target, parent) ==
    [task |-> task, relay_url |-> relay_url, event_kind |-> event_kind,
     target |-> target, parent |-> parent, pc |-> "Disconnected", sent |-> <<>>,
     read |-> <<>>]

\* A variant of main's loops that spawns one task per relay, for the first kind.
SpawnPerRelay(urls, kinds) ==
    [u \in 1..Len(urls) |-> Task(KindTask, urls[u], Some(kinds[1]), None, 0)]

\* main: for relay_url in config.relays.urls { for event_kind in global_event_kinds { tokio::spawn(...) } }
RECURSIVE SpawnInitial(_, _)
SpawnInitial(urls, kinds) ==
    IF urls = <<>> THEN <<>>
    ELSE [i \in 1..Len(kinds) |-> Task(KindTask, urls[1], Some(kinds[i]), None, 0)]
         \o SpawnInitial(Tail(urls), kinds)

\* A variant in which the dynamic tasks send a filter that names no target.
req_message_unscoped(subscription_id, t) ==
    IF t.task = KindTask
    THEN <<"REQ", subscription_id, ("kinds" :> <<t.event_kind[1]>>)>>
    ELSE <<"REQ", subscription_id, ("kinds" :> dynamic_kinds)>>

\* serde_json::json!(["REQ", subscription_id, { "kinds": [event_kind] }]) and
\* serde_json::json!(["REQ", subscription_id, { "kinds": [7, 9734, 9735], "#e": [id] }])
req_message(subscription_id, t) ==
    IF t.task = KindTask
    THEN <<"REQ", subscription_id, ("kinds" :> <<t.event_kind[1]>>)>>
    ELSE <<"REQ", subscription_id, ("kinds" :> dynamic_kinds) @@ ("#e" :> <<t.target[1]>>)>>

\* Url::parse(relay_url) succeeds: the text has a scheme.
url_parse_ok(relay_url) == relay_url.scheme # ""

(***************************************************************************)
(* What the relays deliver.                                                *)
(***************************************************************************)
\* One item of the stream read.next() yields: frame is "end" (None), "error"
\* (Some(Err)), "binary" (a message that is not text) or "text"; json tells how
\* the text parses ("invalid", "scalar" for a value that is no array, "array").
Item(frame, json, arr) == [frame |-> frame, json |-> json, arr |-> arr]

NoItem == Item("", "", <<>>)

EventItem(obj) == Item("text", "array", <<"EVENT", "sub", obj>>)

\* A variant of the test that asks for the subscription's own identifier.
is_own_event_message(item) ==
    /\ item.frame = "text"
    /\ item.json = "array"
    /\ Len(item.arr) >= 3 /\ item.arr[1] = "EVENT" /\ item.arr[2] = "sub"

\* message.is_text(), value.as_array() is Some(arr), arr.len() >= 3 and
\* arr[0] == "EVENT": the message is handled as an event; arr[1], the
\* subscription identifier, is not looked at.
is_event_message(item) ==
    /\ item.frame = "text"
    /\ item.json = "array"
    /\ Len(item.arr) >= 3 /\ item.arr[1] = "EVENT"

\* What the last step did: the task that took it, the stream item it read, the
\* classifier's answer, the result of the INSERT ("ok", "err"; "dropped" when
\* there was none) and the rows the statement reported as changed.
Step(op, s, item, class, res, rows) ==
    [op |-> op, s |-> s, item |-> item, class |-> class, res |-> res, rows |-> rows]

\* A subscription, named by task function and kind: env.run holds the
\* subscriptions whose tasks get to run, env.deliver_to those a relay delivers on.
Sub(t) == [task |-> t.task, event_kind |-> t.event_kind]

\* A variant in which an error is skipped and the task reads on.
SkipError(s) == [sessions EXCEPT ![s].pc = "Streaming"]

\* A variant in which a task that fails starts over.
Reconnect(s) == [sessions EXCEPT ![s].pc = "Disconnected", ![s].read = <<>>]

\* A variant in which a task that returns takes the tasks it spawned with it.
CloseWithChildren(s) ==
    [c \in 1..Len(sessions) |->
        IF c = s \/ sessions[c].parent = s
        THEN [sessions[c] EXCEPT !.pc = "Closed", !.read = <<>>]
        ELSE sessions[c]]

\* The task returns (`?` or the end of the loop): its connection is dropped
\* with whatever was still waiting on it.
Close(s) == [sessions EXCEPT ![s].pc = "Closed", ![s].read = <<>>]

\* The task starts: Url::parse(relay_url)? and connect_async(url) begins.
Connect(s) ==
    /\ sessions[s].pc = "Disconnected"
    /\ Sub(sessions[s]) \in env.run
    /\ sessions' = IF url_parse_ok(sessions[s].relay_url)
                   THEN [sessions EXCEPT ![s].pc = "Connecting"]
                   ELSE Close(s)
    /\ last' = Step("connect", s, NoItem, Drop, "", 0)
    /\ UNCHANGED <<config, env, db, manager>>

\* A variant in which a failed send is not noticed: the task goes on to its
\* read loop with nothing sent.
SubscribeUnchecked(s, connected, sent) ==
    /\ sessions[s].pc = "Connecting"
    /\ (connected /\ sent) \/ "network" \in env.faults
    /\ sessions' = IF connected /\ sent
                   THEN [sessions EXCEPT ![s].pc = "Subscribed",
                                         ![s].sent = @ \o <<req_message(s, sessions[s])>>]
                   ELSE IF connected THEN [sessions EXCEPT ![s].pc = "Subscribed"]
                   ELSE [sessions EXCEPT ![s].pc = "Closed"]
    /\ last' = Step("subscribe", s, NoItem, Drop,
                    IF ~connected THEN "connect_err" ELSE IF ~sent THEN "send_err" ELSE "ok", 0)
    /\ UNCHANGED <<config, env, db, manager>>

\* connect_async(url).await? completes and, on success, the REQ is sent:
\* write.send(Message::Text(req_message.to_string())).await?
Subscribe(s, connected, sent) ==
    /\ sessions[s].pc = "Connecting"
    /\ (connected /\ sent) \/ "network" \in env.faults
    /\ sessions' = IF connected /\ sent
                   THEN [sessions EXCEPT ![s].pc = "Subscribed",
                                         ![s].sent = @ \o <<req_message(s, sessions[s])>>]
                   ELSE Close(s)
    /\ last' = Step("subscribe", s, NoItem, Drop,
                    IF ~connected THEN "connect_err" ELSE IF ~sent THEN "send_err" ELSE "ok", 0)
    /\ UNCHANGED <<config, env, db, manager>>

\* The classifier the task runs on an event.
ClassifyIn(t, event) ==
    IF t.task = KindTask THEN Classify(event) ELSE DynamicClassify(event, t.target[1])

\* A variant that spawns no dynamic task.
SpawnedNone(s, t, event) == <<>>

\* A variant in which every task follows up what it stores: a dynamic task
\* subscribes in turn to the reactions and zaps it files.
SpawnedByAny(s, t, event) ==
    IF event.kind \in {1, 7, 9734, 9735}
    THEN <<Task(NoteTask, t.relay_url, None, Some(event.id), s)>>
    ELSE IF event.kind \in {30023, 30024}
         THEN <<Task(LongTask, t.relay_url, None, Some(event.id), s)>>
    ELSE <<>>

\* A variant that spawns no dynamic task for an identifier some task is
\* already scoped to, on whatever relay.
SpawnedOncePerTarget(s, t, event) ==
    IF t.task # KindTask \/ \E c \in 1..Len(sessions) : sessions[c].target = Some(event.id)
    THEN <<>>
    ELSE IF event.kind = 1
         THEN <<Task(NoteTask, t.relay_url, None, Some(event.id), s)>>
    ELSE IF event.kind \in {30023, 30024}
         THEN <<Task(LongTask, t.relay_url, None, Some(event.id), s)>>
    ELSE <<>>

\* The dynamic tasks listen_to_relay_for_kind spawns after the insert:
\* if event.kind == 1 { ... } and if event.kind == 30023 || event.kind == 30024 { ... }
Spawned(s, t, event) ==
    IF t.task # KindTask THEN <<>>
    ELSE IF event.kind = 1
         THEN <<Task(NoteTask, t.relay_url, None, Some(event.id), s)>>
    ELSE IF event.kind \in {30023, 30024}
         THEN <<Task(LongTask, t.relay_url, None, Some(event.id), s)>>
    ELSE <<>>

\* A variant of the read half that yields the newest waiting message first.
read_newest(read) == [message |-> read[Len(read)], read |-> SubSeq(read, 1, Len(read) - 1)]

\* read.next(): the oldest waiting message, and the read half without it.
read_next(read) == [message |-> Head(read), read |-> Tail(read)]

\* The number of tasks that handling the message in task t will spawn.
Spawns(t, item) ==
    IF is_event_message(item) /\ from_value_ok(item.arr[3])
    THEN Len(Spawned(0, t, item.arr[3]))
    ELSE 0

RECURSIVE SumTo(_, _)
SumTo(f, n) == IF n = 0 THEN 0 ELSE f[n] + SumTo(f, n - 1)

\* The number of tasks that the messages waiting on all connections will spawn.
Waiting ==
    SumTo([c \in 1..Len(sessions) |->
              SumTo([n \in 1..Len(sessions[c].read) |-> Spawns(sessions[c], sessions[c].read[n])],
                    Len(sessions[c].read))],
          Len(sessions))

\* The relay writes a message to a connection; the message waits on the read
\* half until the task reads it. With env.buffer = 0 the relay's write and the
\* task's read.next() are one step (Receive) and nothing ever waits.
RelaySend(s, item) ==
    LET t == sessions[s]
    IN  /\ t.pc \in {"Subscribed", "Streaming"}
        /\ Sub(t) \in env.deliver_to
        /\ item \in env.wire
        /\ Len(t.read) < env.buffer
        /\ sessions' = [sessions EXCEPT ![s].read = Append(@, item)]
        /\ last' = Step("relay", s, item, Drop, "", 0)
        /\ UNCHANGED <<config, env, db, manager>>

\* One turn of `while let Some(message) = read.next().await { ... }`.
\* insert_ok is false when the INSERT statement returns Err.
Receive(s, item, insert_ok) ==
    LET t == sessions[s]
        rest == IF t.read = <<>> THEN <<>> ELSE read_next(t.read).read
        streaming == [sessions EXCEPT ![s].pc = "Streaming", ![s].read = rest]
    IN
    /\ t.pc \in {"Subscribed", "Streaming"}
    /\ IF env.buffer = 0
       THEN Sub(t) \in env.deliver_to /\ item \in env.wire
       ELSE t.read # <<>> /\ item = read_next(t.read).message
    /\ insert_ok \/ "storage" \in env.faults
    /\ IF item.frame \in {"end", "error"} \/ (item.frame = "text" /\ item.json = "invalid")
       THEN /\ insert_ok
            /\ sessions' = Close(s)
            /\ last' = Step("closed", s, item, Drop, "", 0)
            /\ UNCHANGED <<config, env, db, manager>>
       ELSE IF ~is_event_message(item)
       THEN /\ insert_ok
            /\ sessions' = streaming
            /\ last' = Step("ignored", s, item, Drop, "", 0)
            /\ UNCHANGED <<config, env, db, manager>>
       ELSE IF ~from_value_ok(item.arr[3])
       THEN /\ insert_ok
            /\ sessions' = Close(s)
            /\ last' = Step("closed", s, item, Drop, "", 0)
            /\ UNCHANGED <<config, env, db, manager>>
       ELSE LET event == item.arr[3]
                class == ClassifyIn(t, event)
                put   == execute(db, DbEvent(event, class.folder, class.ref_event), insert_ok)
                new   == Spawned(s, t, event)
            IN  IF class.drop
                THEN /\ insert_ok
                     /\ sessions' = streaming
                     /\ last' = Step("event", s, item, class, "dropped", 0)
                     /\ UNCHANGED <<config, env, db, manager>>
                ELSE /\ Len(sessions) + Len(new) <= env.max_tasks
                     /\ sessions' = streaming \o new
                     /\ db' = put.table
                     /\ last' = Step("event", s, item, class, put.res, put.rows_affected)
                     /\ UNCHANGED <<config, env, manager>>

Next ==
    \/ \E s \in 1..Len(sessions) : Connect(s)
    \/ \E s \in 1..Len(sessions) : \E connected, sent \in BOOLEAN : Subscribe(s, connected, sent)
    \/ \E s \in 1..Len(sessions) : \E item \in env.wire : \E insert_ok \in BOOLEAN :
           Receive(s, item, insert_ok)

(***************************************************************************)
(* The ingestion specification: one relay, whose three initial             *)
(* subscriptions all connect; the relay delivers a note, a reply, two      *)
(* reactions (with and without an "e" tag), a long-form event and an event *)
(* of a kind the classifier does not know, all under the same identifier,  *)
(* on the kind-1 subscription and on the dynamic subscriptions.            *)
(***************************************************************************)
Relay1 == [scheme |-> "wss", host |-> "r1"]

E(id, kind, tags) == NostrEvent(id, "p1", 100, kind, tags, "hi", "s")

Note1 == E("a", 1, <<>>)

Reply1 == E("a", 1, <<<<"e", "x1">>>>)

Reaction1 == E("b", 7, <<<<"e", "x1">>>>)

BareReaction1 == E("b", 7, <<>>)

Long1 == E("a", 30023, <<>>)

Other1 == E("a", 2, <<>>)

KindSub(kind) == [task |-> KindTask, event_kind |-> Some(kind)]

InitialSubs == {KindSub(global_event_kinds[i]) : i \in 1..Len(global_event_kinds)}

DynamicSubs == {[task |-> NoteTask, event_kind |-> None], [task |-> LongTask, event_kind |-> None]}

Init ==
    /\ config = AppConfig(<<Relay1>>, global_event_kinds)
    /\ env = [wire |-> {EventItem(e) : e \in {Note1, Reply1, Reaction1, BareReaction1, Long1, Other1}},
              run |-> InitialSubs \cup DynamicSubs,
              deliver_to |-> {KindSub(1)} \cup DynamicSubs,
              faults |-> {},
              buffer |-> 0,
              max_tasks |-> MaxSessions]
    /\ sessions = SpawnInitial(config.relays.urls, global_event_kinds)
    /\ db = {}
    /\ last = Step("main", 0, NoItem, Drop, "", 0)
    /\ manager = NoManager

Spec == Init /\ [][Next]_vars

(***************************************************************************)
(* The two-relay specification: two relays, on each of which the kind-1     *)
(* subscription and the dynamic note subscriptions run; connections and    *)
(* sends can fail, and the relays deliver a note, a reaction, an EVENT     *)
(* whose body is no event, and a read error.                               *)
(***************************************************************************)
Relay2 == [scheme |-> "wss", host |-> "r2"]

NoteSub == [task |-> NoteTask, event_kind |-> None]

\* A text message that serde_json::from_str rejects.
InvalidJson == Item("text", "invalid", <<>>)

\* An EVENT message whose third element lacks fields of NostrEvent.
BadBody == Item("text", "array", <<"EVENT", "sub", [id |-> "a"]>>)

\* read.next() yields Some(Err(_)).
ReadError == Item("error", "", <<>>)

InitRelays ==
    /\ config = AppConfig(<<Relay1, Relay2>>, global_event_kinds)
    /\ env = [wire |-> {EventItem(Note1), EventItem(Reaction1), BadBody, ReadError},
              run |-> {KindSub(1), NoteSub},
              deliver_to |-> {KindSub(1), NoteSub},
              faults |-> {"network"},
              buffer |-> 0,
              max_tasks |-> MaxSessions + 3]
    /\ sessions = SpawnInitial(config.relays.urls, global_event_kinds)
    /\ db = {}
    /\ last = Step("main", 0, NoItem, Drop, "", 0)
    /\ manager = NoManager

SpecRelays == InitRelays /\ [][Next]_vars

(***************************************************************************)
(* The fault specification: one relay, whose kind-1 subscription and       *)
(* dynamic note subscriptions run; connections, sends and inserts can      *)
(* fail, and the relay delivers a note, a reaction, a text that is no JSON *)
(* and an EVENT whose body is no event.                                    *)
(***************************************************************************)
InitFaults ==
    /\ config = AppConfig(<<Relay1>>, global_event_kinds)
    /\ env = [wire |-> {EventItem(Note1), EventItem(Reaction1), InvalidJson, BadBody},
              run |-> {KindSub(1), NoteSub},
              deliver_to |-> {KindSub(1), NoteSub},
              faults |-> {"network", "storage"},
              buffer |-> 0,
              max_tasks |-> MaxSessions]
    /\ sessions = SpawnInitial(config.relays.urls, global_event_kinds)
    /\ db = {}
    /\ last = Step("main", 0, NoItem, Drop, "", 0)
    /\ manager = NoManager

SpecFaults == InitFaults /\ [][Next]_vars

(***************************************************************************)
(* The ordering specification: one relay that writes a note and a reaction *)
(* to the connections of the kind-1 subscription and of the dynamic note   *)
(* subscriptions, up to MaxInFlight messages ahead of what the tasks have  *)
(* read.                                                                   *)
(***************************************************************************)
InitOrder ==
    /\ config = AppConfig(<<Relay1>>, global_event_kinds)
    /\ env = [wire |-> {EventItem(Note1), EventItem(Reaction1)},
              run |-> {KindSub(1), NoteSub},
              deliver_to |-> {KindSub(1), NoteSub},
              faults |-> {},
              buffer |-> MaxInFlight,
              max_tasks |-> MaxSessions - 1]
    /\ sessions = SpawnInitial(config.relays.urls, global_event_kinds)
    /\ db = {}
    /\ last = Step("main", 0, NoItem, Drop, "", 0)
    /\ manager = NoManager

NextOrder ==
    \/ Next
    \/ \E s \in 1..Len(sessions) : \E item \in env.wire : RelaySend(s, item)

SpecOrder == InitOrder /\ [][NextOrder]_vars

(***************************************************************************)
(* The configuration specification: config.toml names one relay and any of *)
(* several lists of event kinds; the three initial subscriptions run, and   *)
(* the relay delivers an event of an unknown kind on the kind-1            *)
(* subscription.                                                           *)
(***************************************************************************)
\* Values of [event] kinds in config.toml.
ConfigKinds == {<<>>, <<1>>, <<0, 1>>, <<1, 30023, 30024>>, <<0, 1, 7, 9735>>}

InitConfig ==
    /\ \E kinds \in ConfigKinds : config = AppConfig(<<Relay1>>, kinds)
    /\ env = [wire |-> {EventItem(Other1)},
              run |-> InitialSubs,
              deliver_to |-> {KindSub(1)},
              faults |-> {},
              buffer |-> 0,
              max_tasks |-> MaxSessions]
    /\ sessions = SpawnInitial(config.relays.urls, global_event_kinds)
    /\ db = {}
    /\ last = Step("main", 0, NoItem, Drop, "", 0)
    /\ manager = NoManager

SpecConfig == InitConfig /\ [][Next]_vars

(***************************************************************************)
(* The read side: GET /users/{id}, /notes/{id} and /long/{id}.             *)
(***************************************************************************)
\* The folders of the single-event routes.
QueryFolders == {"users", "notes", "long"}

\* An HTTP response of query_event: its status and, for 200, the row sent.
Response(status, body) == [status |-> status, body |-> body]

\* A variant of the statement that keys every folder by event_id.
query_event_by_id(folder, identifier, table, query_ok) ==
    LET hits == {r \in table : r.folder = folder /\ r.event_id = identifier}
    IN  IF ~query_ok THEN {Response("500", None)}
        ELSE IF hits = {} THEN {Response("404", None)}
        ELSE {Response("200", Some(r)) : r \in hits}

\* query_event: SELECT ... WHERE folder = ? AND pubkey = ? for the folder users,
\* SELECT ... WHERE folder = ? AND event_id = ? for the others, fetch_optional.
\* The responses it can give: fetch_optional returns whichever matching row
\* the engine yields first. query_ok is false when the query returns Err.
query_event(folder, identifier, table, query_ok) ==
    LET hits == {r \in table :
                    /\ r.folder = folder
                    /\ IF folder = "users" THEN r.pubkey = identifier
                                            ELSE r.event_id = identifier}
    IN  IF ~query_ok THEN {Response("500", None)}
        ELSE IF hits = {} THEN {Response("404", None)}
        ELSE {Response("200", Some(r)) : r \in hits}

\* get_user_event, get_note_event, get_long_event: one request served.
Query(folder, identifier, query_ok) ==
    /\ query_ok \/ "storage" \in env.faults
    /\ \E response \in query_event(folder, identifier, db, query_ok) :
           last' = [op |-> "query", s |-> 0, item |-> NoItem, class |-> Drop,
                    res |-> response.status, rows |-> 0,
                    folder |-> folder, identifier |-> identifier, body |-> response.body]
    /\ UNCHANGED <<config, env, sessions, db, manager>>

(***************************************************************************)
(* The lookup specification: one relay, whose kind-1 subscription runs and *)
(* delivers two metadata events of one author, a note, a reply and a       *)
(* long-form event; inserts and queries can fail; requests ask the three   *)
(* single-event routes for identifiers and author keys.                    *)
(***************************************************************************)
User1 == NostrEvent("u1", "p1", 100, 0, <<>>, "hi", "s")

User2 == NostrEvent("u2", "p1", 101, 0, <<>>, "hi", "s")

Reply2 == NostrEvent("c", "p2", 100, 1, <<<<"e", "a">>>>, "hi", "s")

Long2 == NostrEvent("l", "p2", 100, 30023, <<>>, "hi", "s")

QueryIdentifiers == {"a", "c", "l", "u1", "p1", "p2"}

InitLookup ==
    /\ config = AppConfig(<<Relay1>>, global_event_kinds)
    /\ env = [wire |-> {EventItem(e) : e \in {User1, User2, Note1, Reply2, Long2}},
              run |-> {KindSub(1)},
              deliver_to |-> {KindSub(1)},
              faults |-> {"storage"},
              buffer |-> 0,
              max_tasks |-> MaxSessions]
    /\ sessions = SpawnInitial(config.relays.urls, global_event_kinds)
    /\ db = {}
    /\ last = Step("main", 0, NoItem, Drop, "", 0)
    /\ manager = NoManager

NextLookup ==
    \/ Next
    \/ \E folder \in QueryFolders : \E identifier \in QueryIdentifiers :
           \E query_ok \in BOOLEAN : Query(folder, identifier, query_ok)

SpecLookup == InitLookup /\ [][NextLookup]_vars

(***************************************************************************)
(* The control-message specification: one relay, whose kind-1 subscription *)
(* and dynamic note subscriptions run; besides a note, sent once under the *)
(* identifier "sub" and once under another subscription identifier, the    *)
(* relay delivers a binary frame, a JSON value that is no array, a         *)
(* two-element array and a three-element array that is no EVENT.           *)
(***************************************************************************)
Binary == Item("binary", "", <<>>)

Scalar == Item("text", "scalar", <<>>)

Eose == Item("text", "array", <<"EOSE", "sub">>)

Closed3 == Item("text", "array", <<"CLOSED", "sub", "error: shutting down">>)

ForeignEvent == Item("text", "array", <<"EVENT", "not-mine", Note1>>)

ControlItems == {Binary, Scalar, Eose, Closed3}

InitControl ==
    /\ config = AppConfig(<<Relay1>>, global_event_kinds)
    /\ env = [wire |-> ControlItems \cup {EventItem(Reaction1), ForeignEvent},
              run |-> {KindSub(1), NoteSub},
              deliver_to |-> {KindSub(1), NoteSub},
              faults |-> {},
              buffer |-> 0,
              max_tasks |-> MaxSessions]
    /\ sessions = SpawnInitial(config.relays.urls, global_event_kinds)
    /\ db = {}
    /\ last = Step("main", 0, NoItem, Drop, "", 0)
    /\ manager = NoManager

SpecControl == InitControl /\ [][Next]_vars

(***************************************************************************)
(* The wide-integer specification: one relay, whose kind-1 subscription    *)
(* delivers notes whose created_at is small, the largest value of the      *)
(* signed type, the first value beyond it, and the largest value of the    *)
(* unsigned type; the dynamic note tasks run but get nothing delivered.    *)
(***************************************************************************)
\* i64::MAX and u64::MAX at the scaled width.
I64Max == Pow2(WordBits - 1) - 1

U64Max == Pow2(WordBits) - 1

NoteAt(id, created_at) == NostrEvent(id, "p1", created_at, 1, <<>>, "hi", "s")

InitWide ==
    /\ config = AppConfig(<<Relay1>>, global_event_kinds)
    /\ env = [wire |-> {EventItem(Note1), EventItem(NoteAt("h", I64Max)),
                        EventItem(NoteAt("w", I64Max + 1)), EventItem(NoteAt("m", U64Max))},
              run |-> {KindSub(1), NoteSub},
              deliver_to |-> {KindSub(1)},
              faults |-> {},
              buffer |-> 0,
              max_tasks |-> MaxSessions]
    /\ sessions = SpawnInitial(config.relays.urls, global_event_kinds)
    /\ db = {}
    /\ last = Step("main", 0, NoItem, Drop, "", 0)
    /\ manager = NoManager

SpecWide == InitWide /\ [][Next]_vars

(***************************************************************************)
(* The store specification: one relay, whose kind-1 subscription and       *)
(* dynamic note subscriptions run and all get delivered a note, a reaction,*)
(* a zap receipt without tags and a metadata event with an "e" tag, in any *)
(* interleaving.                                                           *)
(***************************************************************************)
Zap1 == E("z", 9735, <<>>)

TaggedUser1 == E("u", 0, <<<<"e", "x1">>>>)

InitStore ==
    /\ config = AppConfig(<<Relay1>>, global_event_kinds)
    /\ env = [wire |-> {EventItem(e) : e \in {Note1, Reaction1, Zap1, TaggedUser1}},
              run |-> {KindSub(1), NoteSub},
              deliver_to |-> {KindSub(1), NoteSub},
              faults |-> {},
              buffer |-> 0,
              max_tasks |-> MaxSessions]
    /\ sessions = SpawnInitial(config.relays.urls, global_event_kinds)
    /\ db = {}
    /\ last = Step("main", 0, NoItem, Drop, "", 0)
    /\ manager = NoManager

SpecStore == InitStore /\ [][Next]_vars

(***************************************************************************)
(* The connection manager (src/bin/chest.rs): main builds a                *)
(* WebSocketManager with one connection per relay, sends one REQ per        *)
(* (relay, kind) pair through it, and calls listen, which spawns one reader *)
(* task per connection.                                                     *)
(***************************************************************************)
\* connections.insert(relay_url.clone(), conn)
insert(connections, relay_url, conn) ==
    [k \in DOMAIN connections \cup {relay_url} |->
        IF k = relay_url THEN conn ELSE connections[k]]

\* One turn of the loop of WebSocketManager::new: connect(relay_url) is Ok when
\* Url::parse and connect_async both succeed, and only then is the connection
\* inserted.
new_turn(connections, relay_url, connected) ==
    IF url_parse_ok(relay_url) /\ connected
    THEN insert(connections, relay_url, WSConnection(<<>>, Some("stream")))
    ELSE connections

\* serde_json::json!(["REQ", subscription_id, { "kinds": [event_kind] }])
kind_req_message(subscription_id, event_kind) ==
    <<"REQ", subscription_id, ("kinds" :> <<event_kind>>)>>

\* A variant in which a missing connection is an error.
add_subscription_strict(connections, relay_url, message, sent) ==
    IF relay_url \in DOMAIN connections /\ sent
    THEN [connections |-> [connections EXCEPT ![relay_url].write = Append(@, message)],
          res |-> "ok"]
    ELSE [connections |-> connections, res |-> "err"]

\* WebSocketManager::add_subscription: with a connection, conn.write.send(..)
\* .await? (an Err is returned to main); without one, a line on stderr; Ok(())
\* otherwise.
add_subscription(connections, relay_url, message, sent) ==
    IF relay_url \in DOMAIN connections
    THEN IF sent
         THEN [connections |-> [connections EXCEPT ![relay_url].write = Append(@, message)],
               res |-> "ok"]
         ELSE [connections |-> connections, res |-> "err"]
    ELSE [connections |-> connections, res |-> "ok"]

\* The relays of urls whose connection still holds its read half.
WithRead(urls, connections) ==
    SelectSeq(urls, LAMBDA u : u \in DOMAIN connections /\ connections[u].read # None)

\* tokio::spawn(async move { while let Some(message) = read.next().await ... })
Reader(relay_url) == [relay_url |-> relay_url, pc |-> "Reading"]

\* A variant in which listen leaves the read half in the connection.
listen_keep_read(urls, m) ==
    LET taken == WithRead(urls, m.connections)
    IN  [m EXCEPT !.readers = @ \o [r \in 1..Len(taken) |-> Reader(taken[r])]]

\* WebSocketManager::listen: conn.read.take() on every connection, and one
\* reader task for each read half that was there.
listen(urls, m) ==
    LET taken == WithRead(urls, m.connections)
    IN  [m EXCEPT !.readers = @ \o [r \in 1..Len(taken) |-> Reader(taken[r])],
                  !.connections = [k \in DOMAIN @ |-> [@[k] EXCEPT !.read = None]]]

\* Message::Close(_)
CloseFrame == Item("close", "", <<>>)

\* read.next().await is None.
StreamEnd == Item("end", "", <<>>)

\* One turn of the reader's loop: Ok(Text) is printed, Ok(Close) and Err break,
\* None ends the loop, any other frame is skipped.
reader_turn(item) ==
    IF item.frame \in {"close", "error", "end"} THEN "Stopped" ELSE "Reading"

\* The relay and the kind of the i-th turn of main's subscription loops.
PairUrl(i) == config.relays.urls[((i - 1) \div Len(global_event_kinds)) + 1]

PairKind(i) == global_event_kinds[((i - 1) % Len(global_event_kinds)) + 1]

\* main: WebSocketManager::new(&config.relays.urls), one relay at a time.
ManagerNew(connected) ==
    LET done == manager.i = Len(config.relays.urls)
        relay_url == config.relays.urls[manager.i]
    IN
    /\ manager.pc = "new"
    /\ connected \/ "network" \in env.faults
    /\ manager' = [manager EXCEPT
                      !.connections = new_turn(@, relay_url, connected),
                      !.pc = IF done THEN "subscribe" ELSE "new",
                      !.i = IF done THEN 1 ELSE @ + 1]
    /\ last' = Step("new", manager.i, NoItem, Drop,
                    IF url_parse_ok(relay_url) /\ connected THEN "ok" ELSE "err", 0)
    /\ UNCHANGED <<config, env, sessions, db>>

\* main: one turn of `for relay_url .. for event_kind ..`; an Err of
\* add_subscription is printed and the loops go on.
AddSubscription(sent) ==
    LET done == manager.i = Len(config.relays.urls) * Len(global_event_kinds)
        call == add_subscription(manager.connections, PairUrl(manager.i),
                                 kind_req_message(manager.i, PairKind(manager.i)), sent)
    IN
    /\ manager.pc = "subscribe"
    /\ sent \/ "network" \in env.faults
    /\ manager' = [manager EXCEPT
                      !.connections = call.connections,
                      !.pc = IF done THEN "listen" ELSE "subscribe",
                      !.i = IF done THEN 0 ELSE @ + 1]
    /\ last' = Step("add_subscription", manager.i, NoItem, Drop, call.res, 0)
    /\ UNCHANGED <<config, env, sessions, db>>

\* ws_manager.listen().await: main calls it once, after the loops; the method
\* can be called again on the manager it leaves behind.
Listen ==
    LET m == listen(config.relays.urls, manager)
    IN
    /\ manager.pc \in {"listen", "serve"}
    /\ manager' = [m EXCEPT !.pc = "serve"]
    /\ last' = Step("listen", 0, NoItem, Drop, "", Len(m.readers) - Len(manager.readers))
    /\ UNCHANGED <<config, env, sessions, db>>

\* One turn of the loop of the reader task r.
ReaderReceive(r, item) ==
    /\ manager.readers[r].pc = "Reading"
    /\ manager' = [manager EXCEPT !.readers[r].pc = reader_turn(item)]
    /\ last' = Step("reader", r, item, Drop, "", 0)
    /\ UNCHANGED <<config, env, sessions, db>>

(***************************************************************************)
(* The manager specification: config.toml names two relays; connections    *)
(* and sends can fail; the relays deliver an EVENT with a note, an EOSE, a  *)
(* binary frame, a Close frame and a read error, or end the stream.         *)
(***************************************************************************)
InitManager ==
    /\ config = AppConfig(<<Relay1, Relay2>>, global_event_kinds)
    /\ env = [wire |-> {EventItem(Note1), Eose, Binary, CloseFrame, ReadError, StreamEnd},
              run |-> {},
              deliver_to |-> {},
              faults |-> {"network"},
              buffer |-> 0,
              max_tasks |-> 0]
    /\ sessions = <<>>
    /\ db = {}
    /\ last = Step("main", 0, NoItem, Drop, "", 0)
    /\ manager = WebSocketManager("new", 1, HashMapNew, <<>>)

NextManager ==
    \/ \E connected \in BOOLEAN : ManagerNew(connected)
    \/ \E sent \in BOOLEAN : AddSubscription(sent)
    \/ Listen
    \/ \E r \in 1..Len(manager.readers) : \E item \in env.wire : ReaderReceive(r, item)

SpecManager == InitManager /\ [][NextManager]_vars

(***************************************************************************)
(* The progress specification: one relay, whose kind-1 subscription and    *)
(* dynamic note subscriptions run; connections and sends can fail, inserts  *)
(* cannot; the relay writes a note and reactions with and without an "e"   *)
(* tag to the connections, ahead of what the tasks have read, and writes no *)
(* event that would make for more than one dynamic task. The                *)
(* tokio runtime polls every task that is ready, so a task that can take a  *)
(* step eventually takes one; nothing makes a relay write.                  *)
(***************************************************************************)
InitLive ==
    /\ config = AppConfig(<<Relay1>>, global_event_kinds)
    /\ env = [wire |-> {EventItem(Note1), EventItem(Reaction1), EventItem(BareReaction1)},
              run |-> {KindSub(1), NoteSub},
              deliver_to |-> {KindSub(1), NoteSub},
              faults |-> {"network"},
              buffer |-> MaxInFlight - 1,
              max_tasks |-> Len(global_event_kinds) + 1]
    /\ sessions = SpawnInitial(config.relays.urls, global_event_kinds)
    /\ db = {}
    /\ last = Step("main", 0, NoItem, Drop, "", 0)
    /\ manager = NoManager

\* The relay writes a message as long as the tasks it makes for stay within the bound.
BoundedSend(s, item) ==
    /\ Len(sessions) + Waiting + Spawns(sessions[s], item) <= env.max_tasks
    /\ RelaySend(s, item)

NextLive ==
    \/ Next
    \/ \E s \in 1..Len(sessions) : \E item \in env.wire : BoundedSend(s, item)

\* The steps of task s: the body of the spawned future, from connect to the read loop.
TaskStep(s) ==
    /\ s \in 1..Len(sessions)
    /\ \/ Connect(s)
       \/ \E connected, sent \in BOOLEAN : Subscribe(s, connected, sent)
       \/ \E item \in env.wire : \E insert_ok \in BOOLEAN : Receive(s, item, insert_ok)

Fairness == \A s \in 1..MaxSessions : WF_vars(TaskStep(s))

SpecLive == InitLive /\ [][NextLive]_vars /\ Fairness

(***************************************************************************)
(* The classifier specification: the classify-and-store part of one turn   *)
(* of listen_to_relay_for_kind, applied to one event drawn from every kind *)
(* the classifier tells apart and every tag list of up to MaxTags tags.    *)
(***************************************************************************)
TagPool ==
    { <<>>, <<"e">>, <<"p", "x1">>, <<"e", "x1">>, <<"e", "x2">>, <<"e", "x1", "wss://r1">> }

TagLists == UNION {[1..n -> TagPool] : n \in 0..MaxTags}

ClassifierKinds == {0, 1, 2, 7, 9734, 9735, 30023, 30024}

ClassifierEvents == {E("a", kind, tags) : kind \in ClassifierKinds, tags \in TagLists}

InitClassifier ==
    /\ config = AppConfig(<<>>, global_event_kinds)
    /\ env = [wire |-> {}, run |-> {}, deliver_to |-> {}, faults |-> {}, buffer |-> 0,
              max_tasks |-> 0]
    /\ sessions = <<>>
    /\ db = {}
    /\ \E event \in ClassifierEvents : last = Step("input", 0, EventItem(event), Drop, "", 0)
    /\ manager = NoManager

\* listen_to_relay_for_kind, from the match on event.kind to the INSERT.
ClassifyAndStore ==
    /\ last.op = "input"
    /\ LET event == last.item.arr[3]
           class == Classify(event)
           put   == InsertOrIgnore(db, DbEvent(event, class.folder, class.ref_event))
       IN  IF class.drop
           THEN /\ last' = Step("event", 0, last.item, class, "dropped", 0)
                /\ db' = db
           ELSE /\ last' = Step("event", 0, last.item, class, "ok", put.rows_affected)
                /\ db' = put.table
    /\ UNCHANGED <<config, env, sessions, manager>>

NextClassifier == ClassifyAndStore

SpecClassifier == InitClassifier /\ [][NextClassifier]_vars

(***************************************************************************)
(* Properties.                                                             *)
(***************************************************************************)
\* The event of the last step, when that step read an EVENT message.
LastEvent == last.item.arr[3]

\* The last step ran the INSERT statement and the statement returned Ok.
PutDone == last.op = "event" /\ last.res = "ok"

RowsOf(table, id) == {r \in table : r.event_id = id}

\* C1: a put (the INSERT OR IGNORE of a row) reports one changed row exactly
\* when no row with that identifier is stored, and then adds exactly that row;
\* otherwise it reports none and leaves the table as it is. Either way one row
\* with the identifier is stored afterwards, and the rows stored before stay.
IdempotentPut ==
    [][PutDone' =>
         LET id  == LastEvent'.id
             row == DbEvent(LastEvent', last'.class.folder, last'.class.ref_event)
         IN  /\ last'.rows \in {0, 1}
             /\ last'.rows = 1 <=> RowsOf(db, id) = {}
             /\ last'.rows = 1 => db' = db \cup {row}
             /\ last'.rows = 0 => db' = db
             /\ Cardinality(RowsOf(db', id)) = 1
             /\ db \subseteq db']_vars

\* A put of an identifier that is already stored has just been ignored.
IdempotentPutWitness ==
    PutDone /\ last.rows = 0 /\ Cardinality(RowsOf(db, LastEvent.id)) = 1

\* C2: in every state the table holds at most one row per identifier, and no
\* step of any task changes or removes a stored row.
FirstWriterWins ==
    [][/\ \A r \in db : r \in db'
       /\ \A r1, r2 \in db' : r1.event_id = r2.event_id => r1 = r2]_vars

\* A later arrival of a stored identifier on a dynamic subscription, classified
\* differently from the stored row, has just been ignored.
FirstWriterWinsWitness ==
    /\ PutDone /\ last.rows = 0
    /\ sessions[last.s].task # KindTask
    /\ \E r \in db : /\ r.event_id = LastEvent.id
                     /\ \/ r.folder # last.class.folder
                        \/ r.ref_event # last.class.ref_event

\* The last step classified an event (and stored it unless it dropped it).
Classified == last.op = "event"

NamedE(tag) == Len(tag) >= 1 /\ tag[1] = "e"

ValuedE(tag) == Len(tag) >= 2 /\ tag[1] = "e"

\* tags[i] is the first tag named "e".
FirstNamedE(tags, i) == NamedE(tags[i]) /\ \A j \in 1..(i - 1) : ~NamedE(tags[j])

\* The second element of the first tag named "e", None when there is none.
FirstReference(tags) ==
    IF \E i \in 1..Len(tags) : FirstNamedE(tags, i) /\ Len(tags[i]) >= 2
    THEN Some(tags[CHOOSE i \in 1..Len(tags) : FirstNamedE(tags, i)][2])
    ELSE None

\* C3 as stated: a kind-1 event with some tag ["e", X, ...] is a reply to such
\* an X, and a kind-1 event with no such tag is a note.
ReplyByAnyTag ==
    (Classified /\ LastEvent.kind = 1) =>
        LET tags == LastEvent.tags
        IN  IF \E i \in 1..Len(tags) : ValuedE(tags[i])
            THEN \E i \in 1..Len(tags) :
                     ValuedE(tags[i]) /\ last.class = Keep("replies", Some(tags[i][2]))
            ELSE last.class = Keep("notes", None)

\* C3, amended: a kind-1 event is a reply to X when its first tag named "e" has
\* X as second element, and a note without reference when it has no tag named
\* "e" or the first such tag has no second element.
ReplyByFirstTag ==
    (Classified /\ LastEvent.kind = 1) =>
        LET ref == FirstReference(LastEvent.tags)
        IN  IF ref # None
            THEN last.class = Keep("replies", ref)
            ELSE last.class = Keep("notes", None)

\* A kind-1 event whose first "e" tag is bare and whose second carries a value
\* has been classified as a note.
ReplyByFirstTagWitness ==
    /\ Classified /\ LastEvent.kind = 1
    /\ Len(LastEvent.tags) = 2
    /\ LastEvent.tags[1] = <<"e">> /\ ValuedE(LastEvent.tags[2])
    /\ last.class.folder = "notes"

\* C5: an event of kind 9734 or 9735 is never dropped: it is classified as a
\* zap whose reference is the second element of the first tag named "e" (none
\* when there is no such element), and that row is stored.
ZapAlwaysStored ==
    (Classified /\ LastEvent.kind \in {9734, 9735}) =>
        LET class == Keep("zaps", FirstReference(LastEvent.tags))
        IN  /\ last.class = class
            /\ last.res = "ok"
            /\ DbEvent(LastEvent, "zaps", class.ref_event) \in db

\* A zap without any reference has been stored.
ZapAlwaysStoredWitness ==
    /\ Classified /\ LastEvent.kind = 9735
    /\ \A i \in 1..Len(LastEvent.tags) : ~ValuedE(LastEvent.tags[i])
    /\ \E r \in db : r.folder = "zaps" /\ r.ref_event = None

\* C6: kind 0 is always (users, none) and kinds 30023 and 30024 are always
\* (long, none), whatever the tags.
KindAlone ==
    Classified =>
        /\ LastEvent.kind = 0 => last.class = Keep("users", None)
        /\ LastEvent.kind \in {30023, 30024} => last.class = Keep("long", None)

\* A kind-0 event carrying an "e" tag with a value has been classified.
KindAloneWitness ==
    /\ Classified /\ LastEvent.kind = 0
    /\ \E i \in 1..Len(LastEvent.tags) : ValuedE(LastEvent.tags[i])
    /\ \E r \in db : r.folder = "users"

\* C4 as stated: a kind-7 event handled by any task is stored as a reaction to
\* X when it has a tag ["e", X, ...], and is dropped when it has none.
ReactionIffETag ==
    (Classified /\ LastEvent.kind = 7) =>
        LET tags == LastEvent.tags
        IN  IF \E i \in 1..Len(tags) : ValuedE(tags[i])
            THEN \E i \in 1..Len(tags) :
                     ValuedE(tags[i]) /\ last.class = Keep("reactions", Some(tags[i][2]))
            ELSE last.res = "dropped"

KnownKinds == {0, 1, 7, 9734, 9735, 30023, 30024}

\* C7: a step that drops an event leaves the table, the number of tasks and
\* every task's sent messages as they were, and leaves the dropping task
\* streaming and every other task untouched; and an initial task drops every
\* event of another kind than the seven known ones and every reaction that has
\* no tag ["e", X, ...].
DropHasNoEffect ==
    [][Classified' =>
         LET s == last'.s
             event == LastEvent'
         IN  /\ last'.res = "dropped" =>
                  /\ db' = db
                  /\ Len(sessions') = Len(sessions)
                  /\ \A c \in 1..Len(sessions) :
                         IF c = s
                         THEN sessions'[c] = [sessions[c] EXCEPT !.pc = "Streaming"]
                         ELSE sessions'[c] = sessions[c]
             /\ ( /\ sessions[s].task = KindTask
                  /\ \/ event.kind \notin KnownKinds
                     \/ /\ event.kind = 7
                        /\ \A i \in 1..Len(event.tags) : ~ValuedE(event.tags[i]) )
                => last'.res = "dropped"]_vars

\* An initial task has just dropped an event and is still streaming.
DropHasNoEffectWitness ==
    /\ Classified /\ last.res = "dropped"
    /\ sessions[last.s].task = KindTask
    /\ sessions[last.s].pc = "Streaming"

\* The dynamic tasks that task s spawned for identifier id and that have sent
\* their filter.
FiltersFor(s, id) ==
    {c \in 1..Len(sessions) :
        /\ sessions[c].parent = s
        /\ sessions[c].target = Some(id)
        /\ sessions[c].sent # <<>>}

\* C8 as stated: whatever is delivered, a task causes at most one
\* reference-scoped filter per event identifier.
OneFilterPerEntity ==
    \A s \in 1..Len(sessions) : \A id \in {"a", "b"} : Cardinality(FiltersFor(s, id)) <= 1

\* C9 as stated: an initial task spawns a dynamic task for an event exactly
\* when the event's category is note or long-form.
ExpansionOnlyForPrimary ==
    [][(Classified' /\ sessions[last'.s].task = KindTask) =>
         (Len(sessions') > Len(sessions)
            <=> (last'.res # "dropped" /\ last'.class.folder \in {"notes", "long"}))]_vars

\* C10: every task was spawned by main or by an initial task, so no dynamic
\* task has spawned a task, and no task has sent more than its one filter.
DynamicTasksAreTerminal ==
    \A c \in 1..Len(sessions) :
        /\ Len(sessions[c].sent) <= 1
        /\ sessions[c].task = KindTask => sessions[c].parent = 0
        /\ sessions[c].task # KindTask =>
               /\ sessions[c].parent \in 1..Len(sessions)
               /\ sessions[sessions[c].parent].task = KindTask

\* A dynamic task has just handled an event of kind 1, 30023 or 30024, and
\* room for another task is left.
DynamicTasksAreTerminalWitness ==
    /\ Classified
    /\ sessions[last.s].task # KindTask
    /\ LastEvent.kind \in {1, 30023, 30024}
    /\ Len(sessions) < env.max_tasks

\* The filter object of a sent REQ message.
FilterOf(message) == message[3]

SecondaryRunsClassifier ==
    (Classified /\ sessions[last.s].task # KindTask) =>
        /\ last.class = Classify(LastEvent)
        /\ last.res = "dropped" <=> Classify(LastEvent).drop

\* C19: whenever an initial task handles a kind-1 event it does not drop, it
\* spawns one dynamic note task on its own relay scoped to the event's
\* identifier, whatever tasks exist already.
NoDedupAcrossRelays ==
    [][(/\ Classified' /\ last'.res # "dropped"
        /\ sessions[last'.s].task = KindTask
        /\ LastEvent'.kind = 1)
       => /\ Len(sessions') = Len(sessions) + 1
          /\ sessions'[Len(sessions')] =
                 Task(NoteTask, sessions[last'.s].relay_url, None, Some(LastEvent'.id), last'.s)
          /\ \A c \in 1..Len(sessions) : c # last'.s => sessions'[c] = sessions[c]]_vars

\* The note "a" was seen on both relays: two dynamic tasks scoped to it, one
\* connected to each relay, have both sent their filters.
NoDedupAcrossRelaysWitness ==
    \E c1, c2 \in 1..Len(sessions) :
        /\ sessions[c1].task = NoteTask /\ sessions[c2].task = NoteTask
        /\ sessions[c1].target = Some("a") /\ sessions[c2].target = Some("a")
        /\ sessions[c1].relay_url = Relay1 /\ sessions[c2].relay_url = Relay2
        /\ sessions[c1].sent # <<>> /\ sessions[c2].sent # <<>>

\* The text is no JSON, or it is an ["EVENT", sub, body] array whose body does
\* not deserialize into an event.
Malformed(item) ==
    /\ item.frame = "text"
    /\ \/ item.json = "invalid"
       \/ /\ item.json = "array"
          /\ Len(item.arr) >= 3 /\ item.arr[1] = "EVENT"
          /\ ~(NostrEventFields \subseteq DOMAIN item.arr[3])

\* The last step was one turn of a task's read loop.
Read == last.op \in {"event", "ignored", "closed"}

\* C13: a task that reads a malformed message closes in that step, and the
\* step stores nothing and spawns nothing; a closed task stays as it is and
\* takes no further step, so nothing delivered to it afterwards is classified
\* or stored; and no step removes a stored row.
MalformedIsFatal ==
    [][/\ (Read' /\ Malformed(last'.item)) =>
             /\ last'.op = "closed"
             /\ sessions'[last'.s].pc = "Closed"
             /\ db' = db
             /\ Len(sessions') = Len(sessions)
       /\ \A c \in 1..Len(sessions) :
             sessions[c].pc = "Closed" => (sessions'[c] = sessions[c] /\ last'.s # c)
       /\ db \subseteq db']_vars

\* The initial task has stored the note and then closed on a malformed message.
MalformedIsFatalWitness ==
    /\ last.op = "closed" /\ Malformed(last.item)
    /\ sessions[last.s].task = KindTask
    /\ sessions[last.s].pc = "Closed"
    /\ \E r \in db : r.folder = "notes"

\* The guard of task c's read step: it is subscribed or streaming and its
\* relay delivers on its subscription.
CanReceive(c) ==
    /\ sessions[c].pc \in {"Subscribed", "Streaming"}
    /\ Sub(sessions[c]) \in env.deliver_to

\* C14: a step in which a task closes changes no other task, spawns none and
\* leaves the table as it is, so every other task that could take its next
\* message before the step still can after it.
FailureIsolation ==
    [][\A s \in 1..Len(sessions) :
          (sessions[s].pc # "Closed" /\ sessions'[s].pc = "Closed") =>
              /\ Len(sessions') = Len(sessions)
              /\ db' = db
              /\ \A c \in 1..Len(sessions) :
                     c # s => /\ sessions'[c] = sessions[c]
                              /\ CanReceive(c) => CanReceive(c)']_vars

\* A dynamic task has just stored a new row although the task that spawned it
\* is closed and a task on the other relay is closed too.
FailureIsolationWitness ==
    /\ PutDone /\ last.rows = 1
    /\ sessions[last.s].task = NoteTask
    /\ sessions[sessions[last.s].parent].pc = "Closed"
    /\ \E c \in 1..Len(sessions) :
           sessions[c].relay_url # sessions[last.s].relay_url /\ sessions[c].pc = "Closed"

\* C15: a task whose connection attempt fails closes in that step, having sent
\* nothing and stored nothing; a closed task stays as it is (it never
\* reconnects and never sends) and takes no further step; and the only tasks
\* ever created are the dynamic tasks spawned for an event just handled, never
\* in a step in which a task closes.
NoRetry ==
    [][/\ (last'.op = "subscribe" /\ last'.res = "connect_err") =>
             /\ sessions[last'.s].pc = "Connecting"
             /\ sessions'[last'.s] = [sessions[last'.s] EXCEPT !.pc = "Closed"]
             /\ sessions'[last'.s].sent = <<>>
             /\ db' = db
       /\ \A c \in 1..Len(sessions) :
             /\ sessions[c].pc = "Closed" => (sessions'[c] = sessions[c] /\ last'.s # c)
             /\ (sessions[c].pc # "Closed" /\ sessions'[c].pc = "Closed") =>
                    Len(sessions') = Len(sessions)
       /\ \A c \in (Len(sessions) + 1)..Len(sessions') :
             /\ sessions'[c].task # KindTask
             /\ Classified' /\ sessions'[c].target = Some(LastEvent'.id)]_vars

\* A task closed by a failed connection attempt has sent nothing, and another
\* task has stored an event since.
NoRetryWitness ==
    /\ PutDone /\ last.rows = 1
    /\ \E c \in 1..Len(sessions) :
           /\ sessions[c].pc = "Closed" /\ sessions[c].sent = <<>>
           /\ sessions[c].relay_url = sessions[last.s].relay_url

\* C16: a step whose INSERT returns Err leaves the table as it is, so the event
\* is not stored by it, and leaves the task streaming; and a streaming task can
\* always take and store its next event.
InsertFailureNotFatal ==
    /\ [][(Classified' /\ last'.res = "err") =>
             /\ db' = db
             /\ RowsOf(db, LastEvent'.id) = {} => RowsOf(db', LastEvent'.id) = {}
             /\ sessions'[last'.s].pc = "Streaming"]_vars
    /\ [](\A c \in 1..Len(sessions) :
             sessions[c].pc = "Streaming" => ENABLED Receive(c, EventItem(Reaction1), TRUE))

\* The insert of the note "a" failed (its dynamic task exists, its row does
\* not), and the same task has just stored the reaction "b".
InsertFailureNotFatalWitness ==
    /\ PutDone /\ last.rows = 1
    /\ sessions[last.s].task = KindTask
    /\ LastEvent.id = "b"
    /\ RowsOf(db, "a") = {}
    /\ \E c \in 1..Len(sessions) : sessions[c].parent = last.s /\ sessions[c].target = Some("a")

\* C17: a message the relay writes to a task's connection goes behind the
\* messages already waiting there; a turn of the task's read loop takes the
\* message at the front and leaves the others waiting in their order; and the
\* row of an event is in the table at the end of the turn that classified it,
\* before the task reads again. No step of one task touches what waits on
\* another task's connection.
PerSessionOrder ==
    [][/\ last'.op = "relay" =>
             sessions'[last'.s].read = Append(sessions[last'.s].read, last'.item)
       /\ Read' =>
             /\ sessions[last'.s].read # <<>>
             /\ last'.item = sessions[last'.s].read[1]
             /\ sessions'[last'.s].read = Tail(sessions[last'.s].read)
       /\ PutDone' =>
             DbEvent(LastEvent', last'.class.folder, last'.class.ref_event) \in db'
                 \/ RowsOf(db, LastEvent'.id) # {}
       /\ \A c \in 1..Len(sessions) : c # last'.s => sessions'[c].read = sessions[c].read]_vars

\* The initial task has stored the first of two different waiting messages and
\* the second still waits, while a message waits on the connection of a
\* dynamic task as well.
PerSessionOrderWitness ==
    /\ PutDone /\ last.rows = 1
    /\ sessions[last.s].task = KindTask
    /\ sessions[last.s].read # <<>>
    /\ sessions[last.s].read[1] # last.item
    /\ \E c \in 1..Len(sessions) : sessions[c].task = NoteTask /\ sessions[c].read # <<>>

\* The initial tasks on a relay.
InitialTasksOn(relay_url) ==
    {c \in 1..Len(sessions) : sessions[c].task = KindTask /\ sessions[c].relay_url = relay_url}

\* The kinds a sent REQ message names.
KindsOf(message) ==
    {FilterOf(message)["kinds"][k] : k \in 1..Len(FilterOf(message)["kinds"])}

\* The kinds named by the filters a set of tasks has sent.
KindsSent(tasks) ==
    UNION {UNION {KindsOf(sessions[c].sent[i]) : i \in 1..Len(sessions[c].sent)} : c \in tasks}

\* C18 as stated: once every initial task on a relay has sent its filter, the
\* kinds of those filters are the kinds of the configuration's list.
FiltersFromConfig ==
    \A u \in 1..Len(config.relays.urls) :
        LET tasks == InitialTasksOn(config.relays.urls[u])
        IN  (\A c \in tasks : sessions[c].sent # <<>>) =>
                KindsSent(tasks) = {config.event.kinds[k] : k \in 1..Len(config.event.kinds)}

\* The stored rows a lookup is after: in the folder users the rows of the
\* folder whose author is the identifier, in the others the rows of the folder
\* whose event_id is the identifier.
Sought(folder, identifier) ==
    {r \in db : /\ r.folder = folder
                /\ folder = "users" => r.pubkey = identifier
                /\ folder # "users" => r.event_id = identifier}

\* C20: a lookup answers 200 with one of the rows it is after (for notes and
\* long-form events there is at most one, so with that row), 404 only when
\* there is none, and whenever there is none either 404 or, when the query
\* itself failed, 500.
SingleEntityLookup ==
    last.op = "query" =>
        LET sought == Sought(last.folder, last.identifier)
        IN  /\ last.res \in {"200", "404", "500"}
            /\ last.res = "200" => (last.body # None /\ last.body[1] \in sought)
            /\ last.folder # "users" => Cardinality(sought) <= 1
            /\ last.res = "404" => sought = {}
            /\ (sought = {} /\ last.res # "500") => last.res = "404"
            /\ (sought # {} /\ last.res # "500") => last.res = "200"

\* A kind-1 event stored as a reply has just not been found as a note, and the
\* two metadata rows of one author are stored.
SingleEntityLookupWitness ==
    /\ last.op = "query" /\ last.res = "404"
    /\ last.folder = "notes" /\ last.identifier = "c"
    /\ \E r \in db : r.event_id = "c" /\ r.folder = "replies" /\ r.kind = 1
    /\ Cardinality(Sought("users", "p1")) = 2

\* The first tag named "e" of the list has no second element.
FirstEIsBare(tags) == \E i \in 1..Len(tags) : FirstNamedE(tags, i) /\ Len(tags[i]) = 1

\* C21: when the first tag named "e" has no second element, an initial task
\* classifies kind 1 as (notes, none), drops kind 7, and stores kinds 9734 and
\* 9735 as zaps without reference, whatever the later tags are.
OnlyFirstETag ==
    (Classified /\ FirstEIsBare(LastEvent.tags)) =>
        /\ LastEvent.kind = 1 => last.class = Keep("notes", None)
        /\ LastEvent.kind = 7 => (last.class = Drop /\ last.res = "dropped" /\ db = {})
        /\ LastEvent.kind \in {9734, 9735} =>
               /\ last.class = Keep("zaps", None)
               /\ DbEvent(LastEvent, "zaps", None) \in db

\* A reaction whose first "e" tag is bare and whose second names an event has
\* been dropped.
OnlyFirstETagWitness ==
    /\ Classified /\ LastEvent.kind = 7
    /\ Len(LastEvent.tags) = 2
    /\ LastEvent.tags[1] = <<"e">> /\ ValuedE(LastEvent.tags[2])
    /\ last.res = "dropped"

\* C22: a task that reads a frame that is no text, a JSON value that is no
\* array, an array of fewer than three elements or an array whose first
\* element is not "EVENT" stays open with nothing sent and reads on, and the
\* step changes neither the table nor any other task nor the number of tasks;
\* and an EVENT message is classified and stored whatever its subscription
\* identifier is.
ControlMessagesIgnored ==
    [][/\ (Read' /\ last'.item \in ControlItems) =>
             /\ last'.op = "ignored"
             /\ db' = db
             /\ Len(sessions') = Len(sessions)
             /\ \A c \in 1..Len(sessions) :
                    IF c = last'.s
                    THEN sessions'[c] = [sessions[c] EXCEPT !.pc = "Streaming"]
                    ELSE sessions'[c] = sessions[c]
       /\ (Read' /\ last'.item.frame = "text" /\ last'.item.json = "array"
              /\ Len(last'.item.arr) >= 3 /\ last'.item.arr[1] = "EVENT") =>
             /\ Classified'
             /\ last'.class = ClassifyIn(sessions[last'.s], LastEvent')
             /\ ~last'.class.drop => RowsOf(db', LastEvent'.id) # {}]_vars

\* A streaming task that had stored the note sent under a foreign subscription
\* identifier has just ignored a three-element array that is no EVENT.
ControlMessagesIgnoredWitness ==
    /\ last.op = "ignored" /\ last.item = Closed3
    /\ sessions[last.s].pc = "Streaming"
    /\ \E r \in db : r.event_id = "a" /\ r.folder = "notes"

\* The place of a lifecycle state in the order of the states.
Rank(pc) ==
    CASE pc = "Disconnected" -> 0
      [] pc = "Connecting" -> 1
      [] pc = "Subscribed" -> 2
      [] pc = "Streaming" -> 3
      [] pc = "Closed" -> 4

\* C23: a task only moves from a state to the next one in the order
\* Disconnected, Connecting, Subscribed, Streaming, Closed, or to Closed, and
\* starts Disconnected; a task takes a turn of its read loop only when
\* subscribed or streaming with its filter sent, and is streaming or closed
\* after it; a filter is sent only in the step from Connecting to Subscribed;
\* and a failed send closes the task with nothing sent, so that it never reads.
LifecycleOrder ==
    [][/\ \A c \in 1..Len(sessions) :
             LET from == sessions[c].pc
                 to   == sessions'[c].pc
             IN  /\ \/ to = from
                    \/ Rank(to) = Rank(from) + 1
                    \/ to = "Closed"
                 /\ from \in {"Subscribed", "Streaming"} => sessions[c].sent # <<>>
                 /\ from \in {"Disconnected", "Connecting"} => sessions[c].sent = <<>>
                 /\ sessions'[c].sent # sessions[c].sent => (from = "Connecting" /\ to = "Subscribed")
       /\ \A c \in (Len(sessions) + 1)..Len(sessions') : sessions'[c].pc = "Disconnected"
       /\ Read' => /\ sessions[last'.s].pc \in {"Subscribed", "Streaming"}
                   /\ sessions[last'.s].sent # <<>>
                   /\ sessions'[last'.s].pc \in {"Streaming", "Closed"}
       /\ (last'.op = "subscribe" /\ last'.res = "send_err") =>
             /\ sessions[last'.s].pc = "Connecting"
             /\ sessions'[last'.s].pc = "Closed"
             /\ sessions'[last'.s].sent = <<>>
             /\ db' = db]_vars

\* A task whose send failed is closed with nothing sent, while another task
\* has gone through all the states: it has stored a row and then closed.
LifecycleOrderWitness ==
    /\ last.op = "subscribe" /\ last.res = "send_err"
    /\ sessions[last.s].pc = "Closed" /\ sessions[last.s].sent = <<>>
    /\ \E c \in 1..Len(sessions) : sessions[c].pc = "Closed" /\ sessions[c].sent # <<>>
    /\ db # {}

\* The initial tasks for relay u of the configuration and kind k of main's list.
InitialTasksFor(u, k) ==
    {c \in 1..Len(sessions) :
        /\ sessions[c].task = KindTask
        /\ sessions[c].relay_url = config.relays.urls[u]
        /\ sessions[c].event_kind = Some(global_event_kinds[k])}

\* C24: in every state there is exactly one initial task for each configured
\* relay and each of main's kinds, and no other initial task; each was spawned
\* by main, and has sent nothing or exactly one message ["REQ", id, filter]
\* whose filter has the one key "kinds" with the one-element list of the
\* task's kind.
OneInitialSessionPerPair ==
    /\ \A u \in 1..Len(config.relays.urls) : \A k \in 1..Len(global_event_kinds) :
           Cardinality(InitialTasksFor(u, k)) = 1
    /\ \A c \in 1..Len(sessions) :
           sessions[c].task = KindTask =>
               /\ sessions[c].parent = 0
               /\ sessions[c].target = None
               /\ \E u \in 1..Len(config.relays.urls) : \E k \in 1..Len(global_event_kinds) :
                      c \in InitialTasksFor(u, k)
               /\ Len(sessions[c].sent) <= 1
               /\ \A i \in 1..Len(sessions[c].sent) :
                      LET message == sessions[c].sent[i]
                      IN  /\ Len(message) = 3 /\ message[1] = "REQ"
                          /\ DOMAIN FilterOf(message) = {"kinds"}
                          /\ FilterOf(message)["kinds"] = <<sessions[c].event_kind[1]>>

\* The kind-1 tasks of both relays have sent their filters and have handled
\* events since: each has spawned a dynamic task.
OneInitialSessionPerPairWitness ==
    \A u \in 1..Len(config.relays.urls) :
        \E c \in InitialTasksFor(u, 1) :
            /\ sessions[c].sent # <<>>
            /\ sessions[c].pc = "Streaming"
            /\ \E d \in 1..Len(sessions) : sessions[d].parent = c

\* C25 as stated: the row stored for an event carries the event's created_at
\* and kind.
FieldsPreserved ==
    (PutDone /\ last.rows = 1) =>
        \E r \in db : /\ r.event_id = LastEvent.id
                       /\ r.created_at = LastEvent.created_at
                       /\ r.kind = LastEvent.kind

Requested(conn) == {conn.write[n][3]["kinds"][1] : n \in 1..Len(conn.write)}

\* C27: in WebSocketManager::new a relay whose connection attempt fails is
\* not in the map afterwards and one that connected is, and no later step
\* changes the set of connected relays; add_subscription for a relay without
\* a connection sends nothing, leaves the manager as it was and returns Ok;
\* whatever a call returns, main goes on to the next (relay, kind) pair, and a
\* send that succeeds appends that pair's REQ to the relay's connection alone.
UnreachableRelays ==
    [][ /\ last'.op = "new" =>
              LET u == config.relays.urls[last'.s]
              IN  /\ manager.pc = "new"
                  /\ last'.res = "err" =>
                         /\ u \notin DOMAIN manager'.connections
                         /\ manager'.connections = manager.connections
                  /\ last'.res = "ok" =>
                         /\ u \in DOMAIN manager'.connections
                         /\ DOMAIN manager'.connections = DOMAIN manager.connections \cup {u}
                         /\ \A k \in DOMAIN manager.connections :
                                manager'.connections[k] = manager.connections[k]
        /\ last'.op # "new" => DOMAIN manager'.connections = DOMAIN manager.connections
        /\ last'.op = "add_subscription" =>
              LET u == PairUrl(last'.s)
                  pairs == Len(config.relays.urls) * Len(global_event_kinds)
              IN  /\ last'.s = manager.i
                  /\ IF manager.i < pairs
                     THEN manager'.pc = "subscribe" /\ manager'.i = manager.i + 1
                     ELSE manager'.pc = "listen"
                  /\ manager'.readers = manager.readers
                  /\ u \notin DOMAIN manager.connections =>
                         /\ manager'.connections = manager.connections
                         /\ last'.res = "ok"
                  /\ (u \in DOMAIN manager.connections /\ last'.res = "err") =>
                         manager'.connections = manager.connections
                  /\ (u \in DOMAIN manager.connections /\ last'.res = "ok") =>
                         /\ manager'.connections[u].write =
                                Append(manager.connections[u].write,
                                       kind_req_message(last'.s, PairKind(last'.s)))
                         /\ \A k \in DOMAIN manager.connections \ {u} :
                                manager'.connections[k] = manager.connections[k]
      ]_vars

\* The first relay did not connect and the second did; main has been through
\* all pairs, and the second relay got the REQ for kinds 1 and 30024 after the
\* send for kind 30023 failed.
UnreachableRelaysWitness ==
    /\ manager.pc = "listen"
    /\ DOMAIN manager.connections = {Relay2}
    /\ Requested(manager.connections[Relay2]) = {1, 30024}

\* C28: no REQ is sent once a reader exists, and a reader takes its turns
\* only after main has been through all subscriptions; there is at most one
\* reader per connection, the first call of listen starts one reader for each
\* connection and a second call starts none; a reader that gets a Close frame
\* or a receive error stops; no turn of a reader changes the store, what was
\* sent on a connection, the sessions or the set of readers.
ListenOnlyReads ==
    [][ /\ last'.op = "add_subscription" => manager.readers = <<>>
        /\ \A k \in DOMAIN manager'.connections :
              Cardinality({r \in 1..Len(manager'.readers) :
                              manager'.readers[r].relay_url = k}) <= 1
        /\ last'.op = "listen" =>
              IF manager.pc = "listen"
              THEN /\ last'.rows = Cardinality(DOMAIN manager.connections)
                   /\ \A k \in DOMAIN manager.connections :
                          \E r \in 1..Len(manager'.readers) :
                              manager'.readers[r] = Reader(k)
              ELSE /\ last'.rows = 0
                   /\ manager'.readers = manager.readers
        /\ last'.op = "reader" =>
              /\ manager.pc = "serve"
              /\ last'.item.frame \in {"close", "error"} =>
                     manager'.readers[last'.s].pc = "Stopped"
              /\ db' = db
              /\ sessions' = sessions
              /\ manager'.connections = manager.connections
              /\ Len(manager'.readers) = Len(manager.readers)
              /\ \A r \in 1..Len(manager.readers) :
                     r # last'.s => manager'.readers[r] = manager.readers[r]
      ]_vars

\* Both relays connected and got their three REQ messages; one reader has
\* stopped, the other has just read an EVENT with a note and reads on, and the
\* store is empty.
ListenOnlyReadsWitness ==
    /\ last.op = "reader" /\ last.item = EventItem(Note1)
    /\ Len(manager.readers) = 2
    /\ manager.readers[last.s].pc = "Reading"
    /\ \E r \in 1..Len(manager.readers) : manager.readers[r].pc = "Stopped"
    /\ \A k \in DOMAIN manager.connections : Len(manager.connections[k].write) = 3
    /\ db = {}

\* The events the relay of the progress specification writes.
LiveEvents == {Note1, Reaction1, BareReaction1}

\* The events among them that make an initial task spawn a dynamic task.
LivePrimary == {e \in LiveEvents : e.kind \in {1, 30023, 30024}}

\* An EVENT message with event e waits on the connection of a task that will
\* not drop it.
Delivered(e) ==
    \E s \in 1..Len(sessions) :
        /\ \E n \in 1..Len(sessions[s].read) : sessions[s].read[n] = EventItem(e)
        /\ ~ClassifyIn(sessions[s], e).drop

\* No task that has sent its filter is over: the sessions that get messages
\* do not close.
SessionsStayOpen ==
    \A s \in 1..Len(sessions) : sessions[s].sent # <<>> => sessions[s].pc # "Closed"

\* An initial task has just handled event e of kind 1, 30023 or 30024, and d is
\* the task it spawned for it.
Observed(e, d) ==
    /\ last.op = "event" /\ LastEvent = e
    /\ sessions[last.s].task = KindTask
    /\ d = Len(sessions)

\* Task d has sent, to the relay of the task that spawned it, a filter scoped
\* to event e.
ScopedFilterSent(e, d) ==
    /\ d \in 1..Len(sessions)
    /\ sessions[d].parent # 0
    /\ sessions[d].relay_url = sessions[sessions[d].parent].relay_url
    /\ \E n \in 1..Len(sessions[d].sent) :
           LET filter == FilterOf(sessions[d].sent[n])
           IN  "#e" \in DOMAIN filter /\ filter["#e"] = <<e.id>>

\* The connection of task d has just failed to come up.
ConnectFailed(d) ==
    /\ last.s = d
    /\ \/ last.op = "subscribe" /\ last.res = "connect_err"
       \/ last.op = "connect" /\ sessions[d].pc = "Closed"

\* The send of the filter of task d has just failed.
SendFailed(d) == last.s = d /\ last.op = "subscribe" /\ last.res = "send_err"

\* Every delivered event that is not dropped gets stored, no session that
\* gets messages being closed.
DeliveredIsStored ==
    /\ []SessionsStayOpen
    /\ \A e \in LiveEvents : Delivered(e) ~> (RowsOf(db, e.id) # {})

====
